---- MODULE Spec2Model ----
(***************************************************************************)
(* Model of src/python/boiler.py: boiler(csv_filename, output_path)        *)
(* flattens a concept lattice into a concept table and a table of "Is a"   *)
(* edges and writes both as CSV files.                                     *)
(*                                                                         *)
(* The lattice is supplied by the external `concepts` library.  A node is  *)
(* an object identity (a number in Nodes); the lattice iteration yields    *)
(* the nodes 1..N in that order, every other identity is a node the        *)
(* iteration never yields.  Each node exposes `intent` (a tuple of         *)
(* attribute strings) and `upper_neighbors` (a tuple of node references).  *)
(* What `==` means on two nodes is the library's business: eq_class gives  *)
(* the classes of nodes that compare equal (a node always equals itself).  *)
(* Strings are sequences of characters.                                    *)
(***************************************************************************)
EXTENDS Integers, Sequences, FiniteSets, TLC

VARIABLES
  lattice,                  \* c.lattice: the nodes in iteration order
  intent,                   \* node -> tuple of attribute strings
  upper_neighbors,          \* node -> tuple of node references
  eq_class,                 \* node -> representative of its == class
  pc,                       \* position in boiler
  concept_list,             \* local, line 16
  concept_names,            \* local, line 17
  maps_to_list,             \* local, line 19
  idx,                      \* loop variable of line 20
  concept_df,               \* local, line 26
  concept_relationship_df,  \* local, line 28
  fs,                       \* the two destinations under output_path
  exc,                      \* exception the call ended with and the line that raised it
  run,                      \* number of the current call of boiler
  prev                      \* how the previous call ended and what it left on disk

vars == <<lattice, intent, upper_neighbors, eq_class, pc, concept_list,
          concept_names, maps_to_list, idx, concept_df,
          concept_relationship_df, fs, exc, run, prev>>

----------------------------------------------------------------------------
(* Bounds *)

MaxNodes == 2

MaxEdges == 2

MaxIntent == 2

MaxRuns == 2

----------------------------------------------------------------------------
(* Input universe *)

Nodes == 1..(MaxNodes + 1)

AttrNames == << <<"a">>, <<"b", "c">>, <<"d">>, <<"e", "f">>, <<"g">> >>

Min(a, b) == IF a < b THEN a ELSE b

Attributes == {AttrNames[k] : k \in 1..Min(MaxIntent, Len(AttrNames))}

\* tuples without repeats over S, of length at most n
InjSeqs(S, n) ==
  UNION {{s \in [1..k -> S] : \A i, j \in 1..k : s[i] = s[j] => i = j} : k \in 0..n}

RECURSIVE SumLen(_, _)
SumLen(f, n) == IF n = 0 THEN 0 ELSE Len(f[n]) + SumLen(f, n - 1)

ConceptFile == "concept.csv"
RelationshipFile == "concept_relationship.csv"
Files == {ConceptFile, RelationshipFile}

NoFile == [exists |-> FALSE, header |-> <<>>, rows |-> <<>>]

EmptyFrame == [columns |-> <<>>, data |-> <<>>]

NoException == [type |-> "none", line |-> 0]

----------------------------------------------------------------------------
(* Pure functions of the program *)

Separator == <<";", " ">>

\* a join that also puts the separator after the last item
RECURSIVE JoinTrailing(_, _)
JoinTrailing(sep, items) ==
  IF items = <<>> THEN <<>>
  ELSE items[1] \o sep \o JoinTrailing(sep, Tail(items))

\* str.join: the items with the separator between consecutive items
RECURSIVE Join(_, _)
Join(sep, items) ==
  IF items = <<>> THEN <<>>
  ELSE IF Len(items) = 1 THEN items[1]
  ELSE items[1] \o sep \o Join(sep, Tail(items))

get_concept_name(concept) == Join(Separator, intent[concept])

\* a == b on two nodes
NodeEq(a, b) == eq_class[a] = eq_class[b]

\* c in list, as list.index decides it
Contains(list, c) == \E j \in 1..Len(list) : NodeEq(list[j], c)

\* an index that counts positions from 1
indexOneBased(list, c) ==
  CHOOSE j \in 1..Len(list) :
      /\ NodeEq(list[j], c)
      /\ \A k \in 1..(j - 1) : ~NodeEq(list[k], c)

\* list.index(c): 0-based position of the first item that equals c
index(list, c) ==
  (CHOOSE j \in 1..Len(list) :
      /\ NodeEq(list[j], c)
      /\ \A k \in 1..(j - 1) : ~NodeEq(list[k], c)) - 1

\* a range that starts at 1
RangeFromOne(n) == [k \in 1..n |-> k]

\* range(n) as a list
Range(n) == [k \in 1..n |-> k - 1]

\* a to_csv that opens its destination in append mode
to_csvAppend(old, df) ==
  [exists |-> TRUE,
   header |-> df.columns,
   rows   |-> old.rows \o
              (IF df.columns = <<>> THEN <<>>
               ELSE [r \in 1..Len(df.data[1]) |->
                       [c \in 1..Len(df.columns) |-> df.data[c][r]]])]

\* DataFrame.to_csv(path, index = False) on a destination holding `old`:
\* the file is created or overwritten with a header line and one line per row
to_csv(old, df) ==
  [exists |-> TRUE,
   header |-> df.columns,
   rows   |-> IF df.columns = <<>> THEN <<>>
              ELSE [r \in 1..Len(df.data[1]) |->
                      [c \in 1..Len(df.columns) |-> df.data[c][r]]]]

----------------------------------------------------------------------------
(* Initial states *)

Locals ==
  /\ pc = "enumerate"
  /\ concept_list = <<>>
  /\ concept_names = <<>>
  /\ maps_to_list = <<>>
  /\ idx = 0
  /\ concept_df = EmptyFrame
  /\ concept_relationship_df = EmptyFrame
  /\ exc = NoException

Fresh ==
  /\ Locals
  /\ fs = [f \in Files |-> NoFile]
  /\ run = 1
  /\ prev = [pc |-> "none", exc |-> NoException, fs |-> [f \in Files |-> NoFile]]

IsClassMap(f) == \A n \in Nodes : f[n] <= n /\ f[f[n]] = f[n]

\* lattices that differ in their covering relation and in node equality
InitEdges ==
  /\ \E n \in 1..MaxNodes :
       /\ lattice = [k \in 1..n |-> k]
       /\ \E u \in [1..n -> InjSeqs(Nodes, MaxEdges)] :
            /\ SumLen(u, n) <= MaxEdges
            /\ upper_neighbors = [k \in Nodes |-> IF k <= n THEN u[k] ELSE <<>>]
  /\ intent = [n \in Nodes |->
                 [k \in 1..Min(n - 1, Len(AttrNames)) |-> AttrNames[k]]]
  /\ eq_class \in {f \in [Nodes -> Nodes] : IsClassMap(f)}
  /\ Fresh

\* chains that differ in the intents of their nodes
InitLabels ==
  /\ \E n \in 1..MaxNodes :
       /\ lattice = [k \in 1..n |-> k]
       /\ \E t \in [1..n -> InjSeqs(Attributes, MaxIntent)] :
            intent = [k \in Nodes |-> IF k <= n THEN t[k] ELSE <<>>]
  /\ upper_neighbors = [n \in Nodes |->
                          IF n > 1 /\ n <= Len(lattice) THEN <<n - 1>> ELSE <<>>]
  /\ eq_class = [n \in Nodes |-> n]
  /\ Fresh

Init == InitEdges \/ InitLabels

----------------------------------------------------------------------------
(* Steps of boiler *)

Input == <<lattice, intent, upper_neighbors, eq_class>>

\* line 16
Enumerate ==
  /\ pc = "enumerate"
  /\ concept_list' = lattice
  /\ pc' = "names"
  /\ UNCHANGED <<Input, concept_names, maps_to_list, idx, concept_df,
                 concept_relationship_df, fs, exc, run, prev>>

\* lines 17-19
DeriveNames ==
  /\ pc = "names"
  /\ concept_names' = [k \in 1..Len(concept_list) |-> get_concept_name(concept_list[k])]
  /\ maps_to_list' = <<>>
  /\ idx' = 0
  /\ pc' = "project"
  /\ UNCHANGED <<Input, concept_list, concept_df, concept_relationship_df,
                 fs, exc, run, prev>>

\* line 21 for the node at idx
parent_concept_indexes(con) ==
  [k \in 1..Len(upper_neighbors[con]) |-> index(concept_list, upper_neighbors[con][k])]

\* an insertion of the new pairs in front of the list
AppendedFront(list, i, parents) ==
  [k \in 1..Len(parents) |-> <<i, parents[k]>>] \o list

\* lines 22-23 for the node at idx
Appended(list, i, parents) ==
  list \o [k \in 1..Len(parents) |-> <<i, parents[k]>>]

\* lines 20-23, one iteration
Project ==
  /\ pc = "project"
  /\ idx < Len(concept_list)
  /\ LET con == concept_list[idx + 1] IN
       /\ \A k \in 1..Len(upper_neighbors[con]) :
            Contains(concept_list, upper_neighbors[con][k])
       /\ maps_to_list' = Appended(maps_to_list, idx, parent_concept_indexes(con))
  /\ idx' = idx + 1
  /\ UNCHANGED <<Input, pc, concept_list, concept_names, concept_df,
                 concept_relationship_df, fs, exc, run, prev>>

\* line 21: list.index raises ValueError for a neighbor that equals no item
ProjectRaise ==
  /\ pc = "project"
  /\ idx < Len(concept_list)
  /\ LET con == concept_list[idx + 1] IN
       \E k \in 1..Len(upper_neighbors[con]) :
         ~Contains(concept_list, upper_neighbors[con][k])
  /\ exc' = [type |-> "ValueError", line |-> 21]
  /\ pc' = "failed"
  /\ UNCHANGED <<Input, concept_list, concept_names, maps_to_list, idx,
                 concept_df, concept_relationship_df, fs, run, prev>>

\* line 26
ConceptFrame(names) ==
  [columns |-> <<"id", "concept_name">>,
   data    |-> <<Range(Len(names)), names>>]

\* lines 28-30
RelationshipFrame(maps) ==
  [columns |-> <<"id_1", "relationship", "id_2">>,
   data    |-> <<[k \in 1..Len(maps) |-> maps[k][1]],
                 [k \in 1..Len(maps) |-> "Is a"],
                 [k \in 1..Len(maps) |-> maps[k][2]]>>]

\* lines 26-30
BuildFrames ==
  /\ pc = "project"
  /\ idx = Len(concept_list)
  /\ concept_df' = ConceptFrame(concept_names)
  /\ concept_relationship_df' = RelationshipFrame(maps_to_list)
  /\ pc' = "write_concept"
  /\ UNCHANGED <<Input, concept_list, concept_names, maps_to_list, idx,
                 fs, exc, run, prev>>

\* line 33
WriteConcept ==
  /\ pc = "write_concept"
  /\ fs' = [fs EXCEPT ![ConceptFile] = to_csv(fs[ConceptFile], concept_df)]
  /\ pc' = "write_relationship"
  /\ UNCHANGED <<Input, concept_list, concept_names, maps_to_list, idx,
                 concept_df, concept_relationship_df, exc, run, prev>>

\* line 33: the destination cannot be written, to_csv raises OSError
WriteConceptRaise ==
  /\ pc = "write_concept"
  /\ exc' = [type |-> "OSError", line |-> 33]
  /\ pc' = "failed"
  /\ UNCHANGED <<Input, concept_list, concept_names, maps_to_list, idx,
                 concept_df, concept_relationship_df, fs, run, prev>>

\* line 34
WriteRelationship ==
  /\ pc = "write_relationship"
  /\ fs' = [fs EXCEPT ![RelationshipFile] = to_csv(fs[RelationshipFile], concept_relationship_df)]
  /\ pc' = "done"
  /\ UNCHANGED <<Input, concept_list, concept_names, maps_to_list, idx,
                 concept_df, concept_relationship_df, exc, run, prev>>

\* a failure of the second write that removes the first file again
WriteRelationshipRaiseRollback ==
  /\ pc = "write_relationship"
  /\ exc' = [type |-> "OSError", line |-> 34]
  /\ pc' = "failed"
  /\ fs' = [fs EXCEPT ![ConceptFile] = NoFile]
  /\ UNCHANGED <<Input, concept_list, concept_names, maps_to_list, idx,
                 concept_df, concept_relationship_df, run, prev>>

\* line 34: the destination cannot be written, to_csv raises OSError
WriteRelationshipRaise ==
  /\ pc = "write_relationship"
  /\ exc' = [type |-> "OSError", line |-> 34]
  /\ pc' = "failed"
  /\ UNCHANGED <<Input, concept_list, concept_names, maps_to_list, idx,
                 concept_df, concept_relationship_df, fs, run, prev>>

\* line 2: after a call that returned, the caller calls boiler again on the
\* same input; locals are fresh.  An exception ends the caller's script.
Call ==
  /\ pc = "done"
  /\ run < MaxRuns
  /\ prev' = [pc |-> pc, exc |-> exc, fs |-> fs]
  /\ run' = run + 1
  /\ pc' = "enumerate"
  /\ concept_list' = <<>>
  /\ concept_names' = <<>>
  /\ maps_to_list' = <<>>
  /\ idx' = 0
  /\ concept_df' = EmptyFrame
  /\ concept_relationship_df' = EmptyFrame
  /\ exc' = NoException
  /\ UNCHANGED <<Input, fs>>

Next ==
  \/ Enumerate
  \/ DeriveNames
  \/ Project
  \/ ProjectRaise
  \/ BuildFrames
  \/ WriteConcept
  \/ WriteConceptRaise
  \/ WriteRelationship
  \/ WriteRelationshipRaise
  \/ Call

Spec == Init /\ [][Next]_vars

----------------------------------------------------------------------------
(* Vocabulary of the properties *)

N == Len(lattice)

\* the nodes the enumeration yields
Enumerated == {lattice[k] : k \in 1..N}

\* the members of a node's upper_neighbors
Parents(n) == {upper_neighbors[n][k] : k \in 1..Len(upper_neighbors[n])}

\* some node's upper_neighbors holds a node the enumeration does not yield
DanglingNeighbor == \E n \in Enumerated : ~(Parents(n) \subseteq Enumerated)

\* 0-based start of the k-th item inside the joined string
RECURSIVE Offset(_, _)
Offset(items, k) ==
  IF k = 1 THEN 0 ELSE Offset(items, k - 1) + Len(items[k - 1]) + 2

\* name is the items in order with "; " between neighbours and nowhere else
IsJoined(name, items) ==
  LET n == Len(items) IN
  /\ Len(name) = IF n = 0 THEN 0 ELSE Offset(items, n) + Len(items[n])
  /\ \A k \in 1..n :
       SubSeq(name, Offset(items, k) + 1, Offset(items, k) + Len(items[k])) = items[k]
  /\ \A k \in 1..(n - 1) :
       SubSeq(name, Offset(items, k) + Len(items[k]) + 1, Offset(items, k + 1))
         = <<";", " ">>

FramesBuilt == concept_df # EmptyFrame

ConceptRows == fs[ConceptFile].rows

RelationshipRows == fs[RelationshipFile].rows

\* number of (node, parent) pairs of the first i nodes of the enumeration
RECURSIVE PairsBefore(_)
PairsBefore(i) ==
  IF i = 0 THEN 0 ELSE PairsBefore(i - 1) + Len(upper_neighbors[lattice[i]])

----------------------------------------------------------------------------
(* C1: the concept table has one row per enumerated node, row k carries id  *)
(* k, so the ids are exactly 0..N-1 without repeats, and row k's            *)
(* concept_name is the label of the k-th node of the enumeration.           *)
C1_Bijection ==
  /\ FramesBuilt =>
       LET ids == concept_df.data[1]
           names == concept_df.data[2] IN
       /\ Len(ids) = N
       /\ Len(names) = N
       /\ \A k \in 1..N : ids[k] = k - 1 /\ IsJoined(names[k], intent[lattice[k]])
       /\ {ids[k] : k \in 1..N} = 0..(N - 1)
       /\ \A j, k \in 1..N : ids[j] = ids[k] => j = k
  /\ fs[ConceptFile].exists =>
       /\ Len(ConceptRows) = N
       /\ \A k \in 1..N :
            /\ ConceptRows[k][1] = k - 1
            /\ IsJoined(ConceptRows[k][2], intent[lattice[k]])

C1_Witness ==
  /\ pc = "done"
  /\ N = MaxNodes
  /\ Len(ConceptRows) = MaxNodes
  /\ \E k \in 1..N : intent[lattice[k]] # <<>>

(* C6: every concept_name is the node's intent attributes, in iteration     *)
(* order, joined with "; " and without a leading or trailing separator; an  *)
(* empty intent gives the empty string.                                     *)
C6_LabelDerivation ==
  pc \notin {"enumerate", "names"} =>
    /\ Len(concept_names) = N
    /\ \A k \in 1..N :
         /\ IsJoined(concept_names[k], intent[concept_list[k]])
         /\ intent[concept_list[k]] = <<>> => concept_names[k] = <<>>
         /\ Len(intent[concept_list[k]]) = 1 => concept_names[k] = intent[concept_list[k]][1]

C6_Witness ==
  /\ pc = "project"
  /\ \E j, k \in 1..N :
       /\ intent[concept_list[j]] = <<>>
       /\ concept_names[j] = <<>>
       /\ Len(intent[concept_list[k]]) = 2
       /\ Len(concept_names[k]) > 2

(* C2: whenever boiler completes, both id_1 and id_2 of every row of the    *)
(* relationship table are ids of the concept table, that is lie in [0, N).  *)
C2_ReferentialIntegrity ==
  /\ FramesBuilt =>
       LET ids == {concept_df.data[1][k] : k \in 1..Len(concept_df.data[1])} IN
       \A k \in 1..Len(concept_relationship_df.data[1]) :
         /\ concept_relationship_df.data[1][k] \in ids
         /\ concept_relationship_df.data[3][k] \in ids
  /\ pc = "done" =>
       LET ids == {ConceptRows[k][1] : k \in 1..Len(ConceptRows)} IN
       \A k \in 1..Len(RelationshipRows) :
         /\ RelationshipRows[k][1] \in ids
         /\ RelationshipRows[k][1] \in 0..(N - 1)
         /\ RelationshipRows[k][3] \in ids
         /\ RelationshipRows[k][3] \in 0..(N - 1)

C2_Witness ==
  /\ pc = "done"
  /\ Len(RelationshipRows) = MaxEdges
  /\ \E k \in 1..Len(RelationshipRows) : RelationshipRows[k][3] = N - 1

(* C10: the relationship rows are emitted in ascending order of child       *)
(* index, and the rows of one child are contiguous, one per upper neighbor, *)
(* in the order the upper_neighbors iteration yields the parents.           *)
C10_EmissionOrder ==
  /\ Len(maps_to_list) = PairsBefore(idx)
  /\ \A j, k \in 1..Len(maps_to_list) :
       j <= k => maps_to_list[j][1] <= maps_to_list[k][1]
  /\ \A i \in 1..idx :
       \A k \in 1..Len(upper_neighbors[lattice[i]]) :
         LET row == maps_to_list[PairsBefore(i - 1) + k] IN
         /\ row[1] = i - 1
         /\ row[2] \in 0..(N - 1)
         /\ NodeEq(lattice[row[2] + 1], upper_neighbors[lattice[i]][k])
  /\ pc = "done" =>
       /\ Len(RelationshipRows) = Len(maps_to_list)
       /\ \A k \in 1..Len(maps_to_list) :
            RelationshipRows[k] = <<maps_to_list[k][1], "Is a", maps_to_list[k][2]>>

C10_Witness ==
  /\ pc = "done"
  /\ \E i \in 1..N : Len(upper_neighbors[lattice[i]]) = 2
  /\ Len(RelationshipRows) = 2
  /\ RelationshipRows[1][3] # RelationshipRows[2][3]

C10_WitnessTwoChildren ==
  /\ pc = "done"
  /\ Len(RelationshipRows) = 2
  /\ RelationshipRows[1][1] < RelationshipRows[2][1]

(* C8: two calls of boiler on the same lattice, with the same iteration     *)
(* orders, leave identical concept tables and identical relationship        *)
(* tables, rows in the same order.                                          *)
C8_Determinism ==
  (run > 1 /\ pc = "done" /\ prev.pc = "done") => fs = prev.fs

C8_Witness ==
  /\ run > 1
  /\ pc = "done"
  /\ prev.pc = "done"
  /\ Len(ConceptRows) = MaxNodes
  /\ Len(RelationshipRows) > 0

\* what line 33 leaves in concept.csv
WrittenConceptFile ==
  [exists |-> TRUE,
   header |-> <<"id", "concept_name">>,
   rows   |-> [k \in 1..N |-> <<k - 1, concept_names[k]>>]]

\* the part of C5 that does not name the exception
PartialWrites ==
  /\ pc = "write_relationship" =>
       /\ fs[ConceptFile] = WrittenConceptFile
       /\ fs[RelationshipFile] = prev.fs[RelationshipFile]
  /\ exc.line = 33 => pc = "failed" /\ fs = prev.fs
  /\ exc.line = 34 =>
       /\ pc = "failed"
       /\ fs[ConceptFile] = WrittenConceptFile
       /\ fs[RelationshipFile] = prev.fs[RelationshipFile]

C5_WitnessFirstWrite ==
  /\ pc = "failed"
  /\ exc.line = 33
  /\ run = 1
  /\ ~fs[ConceptFile].exists

(* C9: every upper-neighbor reference is resolved to the enumeration index  *)
(* of that very node, as an identity-keyed node-to-index map would return   *)
(* it, also when distinct nodes of the enumeration compare equal.  Stated   *)
(* for the references to enumerated nodes; C4 is about the others.          *)
C9_IdentityResolution ==
  \A i \in 1..idx :
    \A k \in 1..Len(upper_neighbors[lattice[i]]) :
      upper_neighbors[lattice[i]][k] \in Enumerated =>
        LET row == maps_to_list[PairsBefore(i - 1) + k] IN
        /\ row[2] \in 0..(N - 1)
        /\ lattice[row[2] + 1] = upper_neighbors[lattice[i]][k]

C4_DanglingNeighbor ==
  DanglingNeighbor =>
    /\ pc \notin {"write_concept", "write_relationship", "done"}
    /\ \A f \in Files : ~fs[f].exists
    /\ pc = "failed" => exc.type = "DanglingReferenceError"

====
